---- MODULE Spec2Model ----
(***************************************************************************)
(* A model of three pieces of robosuite:                                   *)
(*   - renderers/nvisii/parser.py   Parser (scene XML -> visual components)*)
(*   - demo_control.py              the controller demo loop               *)
(*   - renderers/mujoco/mujoco_renderer.py   MujocoRenderer viewer wrapper *)
(* Each piece has its own specification (Spec, SpecDemo, SpecRenderer);    *)
(* the variables of the other pieces stay at their "off" values.           *)
(***************************************************************************)
EXTENDS Integers, Sequences, FiniteSets, TLC

VARIABLES
    \* ---- Parser (parser.py)
    parser,          \* the Parser instance's attribute dictionary (self.__dict__)
    doc,             \* the geom nodes xml_root.iter('geom') has yielded so far
    repeated_names,  \* parse_geometries' local counter table
    resolved,        \* the value of the local geom_name for each yielded node
    loaded,          \* the load_object calls made (objects created in the renderer)
    pc,              \* "idle" | "geoms" | "done" | "failed"
    err,             \* the exception parse_geometries raised, or None
    \* ---- demo loop (demo_control.py)
    controller_name, n, count, i, dpc, action, total_action, steps, closed,
    \* ---- MujocoRenderer (mujoco_renderer.py)
    rpc,             \* "off" | "live"
    render_camera, render_collision_mesh, render_visual_mesh,
    viewer,          \* self.viewer: 0 for None, else an index into viewers
    viewers,         \* every MujocoPyRenderer created so far, in creation order
    rerr             \* the exception the last call raised, or None

parserVars == <<parser, doc, repeated_names, resolved, loaded, pc, err>>
demoVars == <<controller_name, n, count, i, dpc, action, total_action, steps, closed>>
rendererVars ==
    <<rpc, render_camera, render_collision_mesh, render_visual_mesh, viewer, viewers, rerr>>
vars == <<parserVars, demoVars, rendererVars>>

\* Python's None (an absent XML attribute, an unset reference).
None == "<None>"

(***************************************************************************)
(* Strings                                                                 *)
(***************************************************************************)

\* Python's `t in s` for strings: t is a contiguous substring of s.
Contains(s, t) ==
    \E k \in 1..(Len(s) - Len(t) + 1) : SubSeq(s, k, k + Len(t) - 1) = t

Digit == <<"0", "1", "2", "3", "4", "5", "6", "7", "8", "9">>

\* Python's str(k) for a non-negative integer: its decimal digits.
RECURSIVE str(_)
str(k) == IF k < 10 THEN Digit[k + 1] ELSE str(k \div 10) \o Digit[(k % 10) + 1]

\* Python dictionaries as functions.
EmptyDict == [k \in {} |-> None]
Put(d, k, v) == [x \in (DOMAIN d) \cup {k} |-> IF x = k THEN v ELSE d[x]]
SetAttr(obj, k, v) == [x \in (DOMAIN obj) \cup {k} |-> IF x = k THEN v ELSE obj[x]]

(***************************************************************************)
(* The scene document (the input of Parser.__init__)                       *)
(***************************************************************************)

\* The most geom nodes a document holds.
MaxGeoms == 3

\* The document's body elements and their `name` attribute; u1 and u2 carry
\* none (the <worldbody> element itself, or an unnamed <body>).
Bodies == {"bX", "bBin", "u1", "u2"}
BodyAttrName ==
    [b \in Bodies |-> CASE b = "bX" -> "X" [] b = "bBin" -> "bin" [] OTHER -> None]

\* The document's <texture> elements: name, file, type.
DocTextures ==
    { [name |-> "tex_file", file |-> "wood.png", type |-> "2d"],
      [name |-> "tex_rgb", file |-> None, type |-> "cube"] }

\* The document's <material> elements: name, texture.
DocMaterials ==
    { [name |-> "mat_tex", texture |-> "tex_file"],
      [name |-> "mat_plain", texture |-> None],
      [name |-> "mat_dangling", texture |-> "tex_gone"] }

\* The document's <mesh> elements.
DocMeshes == { [name |-> "m", scale |-> "2 2 2"] }

Node(b, nm, grp, ty, me, ma) ==
    [body |-> b, name |-> nm, group |-> grp, type |-> ty, mesh |-> me, material |-> ma]

\* The geom nodes a document may hold.
NameNodes ==
    {Node(b, None, "1", "box", None, None) : b \in Bodies}
    \cup {Node("bX", nm, "1", "box", None, None) : nm \in {"foo", "X0"}}
    \cup {Node("bBin", "foo", "1", "box", None, None)}
FilterNodes ==
    {Node("bX", nm, "1", "box", None, None) :
        nm \in {"floor", "left_wall", "VisualCan_g0", "peg_collision", "cabinet"}}
GroupNodes ==
    {Node("bX", None, "0", ty, None, None) : ty \in {"box", "plane"}}
RefNodes ==
    {Node("bX", None, "1", "mesh", me, None) : me \in {"m", "nomesh"}}
    \cup {Node("bX", None, "1", "box", None, ma) :
            ma \in {"mat_tex", "mat_plain", "mat_dangling", "mat_gone"}}
GeomNodes == NameNodes \cup FilterNodes \cup GroupNodes \cup RefNodes

(***************************************************************************)
(* Parser                                                                  *)
(***************************************************************************)

HasAttr(obj, k) == k \in DOMAIN obj

\* parse_textures: file-backed textures go to texture_attributes, the others
\* to texture_id_mapping.
TextureAttributes ==
    LET named == {t \in DocTextures : t.file # None}
    IN [nm \in {t.name : t \in named} |->
            CHOOSE t \in named : t.name = nm]
TextureIdMapping ==
    LET named == {t \in DocTextures : t.file = None}
    IN [nm \in {t.name : t \in named} |->
            (CHOOSE t \in named : t.name = nm).type]

\* parse_materials: material name -> texture name (None when it has none).
MaterialTextureMapping ==
    [nm \in {m.name : m \in DocMaterials} |->
        (CHOOSE m \in DocMaterials : m.name = nm).texture]

\* parse_meshes: mesh name -> its attributes.
Meshes ==
    [nm \in {m.name : m \in DocMeshes} |-> CHOOSE m \in DocMeshes : m.name = nm]

\* parent_body.get('name', 'worldbody')
ParentBodyName(g) ==
    IF BodyAttrName[g.body] = None THEN "worldbody" ELSE BodyAttrName[g.body]

\* Lines 86-92: the name of a geom, and the counter table after it.
SynthName(parent_body_name, rn) ==
    IF parent_body_name \in DOMAIN rn
    THEN parent_body_name \o str(rn[parent_body_name])
    ELSE parent_body_name \o "0"
\* A faulty variant of BumpRepeated: the counter is set, never incremented.
BumpRepeated_NoIncrement(parent_body_name, rn) == Put(rn, parent_body_name, 1)
BumpRepeated(parent_body_name, rn) ==
    IF parent_body_name \in DOMAIN rn
    THEN Put(rn, parent_body_name, rn[parent_body_name] + 1)
    ELSE Put(rn, parent_body_name, 1)

GeomName(g, rn) ==
    IF g.name = None THEN SynthName(ParentBodyName(g), rn) ELSE g.name
RepeatedAfter(g, rn) ==
    IF g.name = None THEN BumpRepeated(ParentBodyName(g), rn) ELSE rn

block_rendering_objects ==
    {"VisualBread_g0", "VisualCan_g0", "VisualCereal_g0", "VisualMilk_g0"}

\* A faulty variant of Excluded: the group test joins its two halves with `or`.
Excluded_GroupOr(geom_name, g) ==
    \/ Contains(geom_name, "floor")
    \/ Contains(geom_name, "wall")
    \/ geom_name \in block_rendering_objects
    \/ (g.group # "1" \/ g.type # "plane")
    \/ Contains(geom_name, "collision")

\* Lines 94-98: the two `continue` conditions.
Excluded(geom_name, g) ==
    \/ Contains(geom_name, "floor")
    \/ Contains(geom_name, "wall")
    \/ geom_name \in block_rendering_objects
    \/ (g.group # "1" /\ g.type # "plane")
    \/ Contains(geom_name, "collision")

\* A faulty variant of TagInName: the name must equal a tag.
TagInName_Equals(name, tags) == \E tag \in tags : name = tag

\* tag_in_name
TagInName(name, tags) == \E tag \in tags : Contains(name, tag)

\* Lines 117-120.
Dynamic(geom_name) == ~TagInName(geom_name, {"bin"})

\* Lines 109-129: the exception resolving an eligible geom raises, or None.
ResolveError(g, self) ==
    CASE g.type = "mesh" /\ ~HasAttr(self, "meshes") -> "AttributeError"
      [] g.type = "mesh" /\ g.mesh \notin DOMAIN self.meshes -> "KeyError"
      [] OTHER ->
        IF g.material = None THEN None
        ELSE IF ~HasAttr(self, "material_texture_mapping") THEN "AttributeError"
        ELSE IF g.material \notin DOMAIN self.material_texture_mapping THEN "KeyError"
        ELSE IF ~HasAttr(self, "texture_attributes") THEN "AttributeError"
        ELSE None

\* Lines 122-129, for a geom ResolveError finds no fault with.
GeomTexName(g, self) ==
    IF g.material = None THEN None ELSE self.material_texture_mapping[g.material]
GeomTexFile(g, self) ==
    IF g.material = None THEN None
    ELSE LET t == self.material_texture_mapping[g.material]
         IN IF t \in DOMAIN self.texture_attributes
            THEN self.texture_attributes[t].file ELSE None

\* Parser.__init__: visual_objects and components start empty.
ParserInit ==
    /\ parser = [visual_objects |-> EmptyDict, components |-> EmptyDict]
    /\ doc = <<>>
    /\ repeated_names = EmptyDict
    /\ resolved = <<>>
    /\ loaded = <<>>
    /\ pc = "idle"
    /\ err = None

ParserOff ==
    /\ parser = [off |-> TRUE]
    /\ doc = <<>>
    /\ repeated_names = EmptyDict
    /\ resolved = <<>>
    /\ loaded = <<>>
    /\ pc = "off"
    /\ err = None

ParseTextures ==
    /\ pc = "idle"
    /\ parser' = SetAttr(SetAttr(parser, "texture_attributes", TextureAttributes),
                         "texture_id_mapping", TextureIdMapping)
    /\ UNCHANGED <<doc, repeated_names, resolved, loaded, pc, err>>

ParseMaterials ==
    /\ pc = "idle"
    /\ parser' = SetAttr(parser, "material_texture_mapping", MaterialTextureMapping)
    /\ UNCHANGED <<doc, repeated_names, resolved, loaded, pc, err>>

ParseMeshes ==
    /\ pc = "idle"
    /\ parser' = SetAttr(parser, "meshes", Meshes)
    /\ UNCHANGED <<doc, repeated_names, resolved, loaded, pc, err>>

\* A faulty variant of SelfAtGeometries: parse_meshes is not called.
SelfAtGeometries_NoMeshes(self) == self

\* parse_geometries up to its loop: parse_meshes, then repeated_names = {}.
SelfAtGeometries(self) == SetAttr(self, "meshes", Meshes)

ParseGeometries ==
    /\ pc = "idle"
    /\ parser' = SelfAtGeometries(parser)
    /\ repeated_names' = EmptyDict
    /\ pc' = "geoms"
    /\ UNCHANGED <<doc, resolved, loaded, err>>

\* One iteration of the loop over xml_root.iter('geom'), for the node g.
GeomStep(g) ==
    LET geom_name == GeomName(g, repeated_names)
        e == ResolveError(g, parser)
        k == Len(doc) + 1
    IN /\ pc = "geoms"
       /\ Len(doc) < MaxGeoms
       /\ doc' = Append(doc, g)
       /\ resolved' = Append(resolved, geom_name)
       /\ repeated_names' = RepeatedAfter(g, repeated_names)
       /\ IF Excluded(geom_name, g)
          THEN UNCHANGED <<parser, loaded, pc, err>>
          ELSE IF e # None
          THEN /\ pc' = "failed"
               /\ err' = e
               /\ UNCHANGED <<parser, loaded>>
          ELSE LET obj == [geom |-> k, geom_name |-> geom_name,
                           geom_tex_name |-> GeomTexName(g, parser),
                           geom_tex_file |-> GeomTexFile(g, parser)]
               IN /\ loaded' = Append(loaded, obj)
                  /\ parser' = [parser EXCEPT !.components =
                        Put(@, geom_name,
                            [obj |-> obj,
                             parent_body_name |-> ParentBodyName(g),
                             dynamic |-> Dynamic(geom_name)])]
                  /\ UNCHANGED <<pc, err>>

\* The iterator is exhausted: parse_geometries returns.
GeomsDone ==
    /\ pc = "geoms"
    /\ pc' = "done"
    /\ UNCHANGED <<parser, doc, repeated_names, resolved, loaded, err>>

(***************************************************************************)
(* The controller demo loop (demo_control.py)                              *)
(***************************************************************************)

\* The most arms the chosen robots have (n, the number of copies of the
\* per-arm action in one env.step argument).
MaxArms == 2

steps_per_action == 50
steps_per_rest == 250

Controllers == {"EE_POS_ORI", "EE_POS", "EE_IK", "JOINT_IMP", "JOINT_VEL", "JOINT_TOR"}

\* controller_settings: action_dim, num_test_steps, test_value, neutral.
\* Action entries are kept as the literals of the source.
Zeros(k) == [x \in 1..k |-> "0"]
controller_settings ==
    [c \in Controllers |->
        CASE c = "EE_POS_ORI" ->
               [action_dim |-> 7, num_test_steps |-> 6, test_value |-> "0.1",
                neutral |-> Zeros(7)]
          [] c = "EE_POS" ->
               [action_dim |-> 4, num_test_steps |-> 3, test_value |-> "0.1",
                neutral |-> Zeros(4)]
          [] c = "EE_IK" ->
               [action_dim |-> 8, num_test_steps |-> 6, test_value |-> "0.01",
                neutral |-> <<"0", "0", "0", "0", "0", "0", "1", "0">>]
          [] c = "JOINT_IMP" ->
               [action_dim |-> 8, num_test_steps |-> 7, test_value |-> "0.2",
                neutral |-> Zeros(8)]
          [] c = "JOINT_VEL" ->
               [action_dim |-> 8, num_test_steps |-> 7, test_value |-> "-0.05",
                neutral |-> Zeros(8)]
          [] OTHER ->
               [action_dim |-> 8, num_test_steps |-> 7, test_value |-> "0.001",
                neutral |-> Zeros(8)]]

action_dim == controller_settings[controller_name].action_dim
num_test_steps == controller_settings[controller_name].num_test_steps
test_value == controller_settings[controller_name].test_value
neutral == controller_settings[controller_name].neutral

\* suite.make(..., horizon=...)
horizon == (steps_per_action + steps_per_rest) * num_test_steps

\* T.mat2quat(T.euler2mat(angle)) with angle[axis] = test_value: four numbers
\* the imported transform utilities compute, kept symbolic.
EulerQuat(axis, tv) ==
    [c \in 1..4 |-> "quat(" \o tv \o "@" \o str(axis) \o ")[" \o str(c - 1) \o "]"]

\* np.tile(a, k)
Tile(a, k) == [x \in 1..(k * Len(a)) |-> a[((x - 1) % Len(a)) + 1]]

\* A faulty variant of PhaseStartAction: the action of the phase before is kept.
PhaseStartAction_Carry(prev, neut) == IF prev = <<>> THEN neut ELSE prev

\* Line 141: the action a phase starts from.
PhaseStartAction(prev, neut) == neut

\* Lines 143-149: the body of the perturbation loop (indices are 0-based in
\* the source, 1-based here).
Perturb(a, ctrl, cnt, tv) ==
    IF ctrl = "EE_IK" /\ cnt > 2
    THEN [x \in 1..Len(a) |->
            IF x \in 4..7 THEN EulerQuat(cnt - 3, tv)[x - 3] ELSE a[x]]
    ELSE [a EXCEPT ![cnt + 1] = tv]

\* After env.reset(): the controller and the robots are chosen, count = 0.
DemoInit ==
    /\ controller_name \in Controllers
    /\ n \in 1..MaxArms
    /\ count = 0
    /\ i = 0
    /\ dpc = "while"
    /\ action = <<>>
    /\ total_action = <<>>
    /\ steps = 0
    /\ closed = FALSE

DemoOff ==
    /\ controller_name = None
    /\ n = 0
    /\ count = 0
    /\ i = 0
    /\ dpc = "off"
    /\ action = <<>>
    /\ total_action = <<>>
    /\ steps = 0
    /\ closed = FALSE

\* `while count < num_test_steps:` holds: action = neutral.copy()
WhileEnter ==
    /\ dpc = "while"
    /\ count < num_test_steps
    /\ action' = PhaseStartAction(action, neutral)
    /\ i' = 0
    /\ dpc' = "act"
    /\ UNCHANGED <<controller_name, n, count, total_action, steps, closed>>

\* One pass of `for i in range(steps_per_action)`: perturb, tile, env.step.
ActStep ==
    /\ dpc = "act"
    /\ i < steps_per_action
    /\ action' = Perturb(action, controller_name, count, test_value)
    /\ total_action' = Tile(action', n)
    /\ steps' = steps + 1
    /\ i' = i + 1
    /\ UNCHANGED <<controller_name, n, count, dpc, closed>>

ActDone ==
    /\ dpc = "act"
    /\ i = steps_per_action
    /\ i' = 0
    /\ dpc' = "rest"
    /\ UNCHANGED <<controller_name, n, count, action, total_action, steps, closed>>

\* One pass of `for i in range(steps_per_rest)`: tile neutral, env.step.
RestStep ==
    /\ dpc = "rest"
    /\ i < steps_per_rest
    /\ total_action' = Tile(neutral, n)
    /\ steps' = steps + 1
    /\ i' = i + 1
    /\ UNCHANGED <<controller_name, n, count, dpc, action, closed>>

\* The rest loop ends: count += 1.
RestDone ==
    /\ dpc = "rest"
    /\ i = steps_per_rest
    /\ count' = count + 1
    /\ i' = 0
    /\ dpc' = "while"
    /\ UNCHANGED <<controller_name, n, action, total_action, steps, closed>>

\* The while loop ends: env.close().
WhileExit ==
    /\ dpc = "while"
    /\ count >= num_test_steps
    /\ closed' = TRUE
    /\ dpc' = "closed"
    /\ UNCHANGED <<controller_name, n, count, i, action, total_action, steps>>

(***************************************************************************)
(* MujocoRenderer (mujoco_renderer.py)                                     *)
(***************************************************************************)

\* The most viewers created in one run.
MaxViewers == 3

Cameras == {"frontview", "agentview"}
\* sim.model.camera_name2id
CameraName2Id(c) == IF c = "frontview" THEN 0 ELSE 1

\* MujocoPyRenderer(self.sim) and the settings of lines 27-35; the camera is
\* the viewer's free camera (-1) until set_camera.
NewViewer(collision, visual) ==
    [open |-> TRUE, closes |-> 0, camera |-> -1,
     geomgroup0 |-> IF collision THEN 1 ELSE 0,
     geomgroup1 |-> IF visual THEN 1 ELSE 0]

\* self.viewer.close() on viewer v.
CloseViewer(vs, v) ==
    [vs EXCEPT ![v] = [@ EXCEPT !.open = FALSE, !.closes = @ + 1]]

\* self.viewer.set_camera(camera_id=...)
SetViewerCamera(vs, v, id) == [vs EXCEPT ![v] = [@ EXCEPT !.camera = id]]

\* initialize_renderer on the viewers vs: the viewers afterwards. fault names
\* where a call into the viewer library raises: "create" (MujocoPyRenderer
\* raises, nothing is assigned), "camera" (set_camera raises, the new viewer
\* is already assigned), "none".
InitializedViewers(vs, collision, visual, cam, fault) ==
    IF fault = "create" THEN vs
    ELSE LET made == Append(vs, NewViewer(collision, visual))
         IN IF cam = None \/ fault = "camera" THEN made
            ELSE SetViewerCamera(made, Len(made), CameraName2Id(cam))

\* A faulty variant of ViewersAfterResetClose: the old viewer is not closed.
ViewersAfterResetClose_Skip(vs, v) == vs

\* The viewers after reset()'s lines 19-21.
ViewersAfterResetClose(vs, v) == IF v # 0 THEN CloseViewer(vs, v) ELSE vs

RendererOff ==
    /\ rpc = "off"
    /\ render_camera = None
    /\ render_collision_mesh = FALSE
    /\ render_visual_mesh = FALSE
    /\ viewer = 0
    /\ viewers = <<>>
    /\ rerr = None

\* __init__ has returned: the first viewer exists.
RendererInit ==
    /\ rpc = "live"
    /\ render_camera \in Cameras \cup {None}
    /\ render_collision_mesh \in BOOLEAN
    /\ render_visual_mesh \in BOOLEAN
    /\ viewers = InitializedViewers(<<>>, render_collision_mesh, render_visual_mesh,
                                    render_camera, "none")
    /\ viewer = 1
    /\ rerr = None

Reset(fault) ==
    LET closedVs == ViewersAfterResetClose(viewers, viewer)
    IN /\ rpc = "live"
       /\ Len(viewers) < MaxViewers
       /\ viewers' = InitializedViewers(closedVs, render_collision_mesh,
                                        render_visual_mesh, render_camera, fault)
       /\ viewer' = IF fault = "create" THEN 0 ELSE Len(viewers')
       /\ rerr' = IF fault = "none" THEN None ELSE "ViewerError"
       /\ UNCHANGED <<rpc, render_camera, render_collision_mesh, render_visual_mesh>>

\* close(): self.viewer.close() raises AttributeError when self.viewer is None.
Close ==
    /\ rpc = "live"
    /\ IF viewer = 0
       THEN /\ rerr' = "AttributeError"
            /\ UNCHANGED <<viewer, viewers>>
       ELSE /\ viewers' = CloseViewer(viewers, viewer)
            /\ viewer' = 0
            /\ rerr' = None
    /\ UNCHANGED <<rpc, render_camera, render_collision_mesh, render_visual_mesh>>

SetCamera(id) ==
    /\ rpc = "live"
    /\ IF viewer = 0
       THEN /\ rerr' = "AttributeError"
            /\ UNCHANGED viewers
       ELSE /\ viewers' = SetViewerCamera(viewers, viewer, id)
            /\ rerr' = None
    /\ UNCHANGED <<rpc, render_camera, render_collision_mesh, render_visual_mesh, viewer>>

Render ==
    /\ rpc = "live"
    /\ rerr' = IF viewer = 0 THEN "AttributeError" ELSE None
    /\ UNCHANGED <<rpc, render_camera, render_collision_mesh, render_visual_mesh,
                   viewer, viewers>>

(***************************************************************************)
(* Specifications                                                          *)
(***************************************************************************)

Init == ParserInit /\ DemoOff /\ RendererOff

Next ==
    \/ (ParseTextures /\ UNCHANGED <<demoVars, rendererVars>>)
    \/ (ParseMaterials /\ UNCHANGED <<demoVars, rendererVars>>)
    \/ (ParseMeshes /\ UNCHANGED <<demoVars, rendererVars>>)
    \/ (ParseGeometries /\ UNCHANGED <<demoVars, rendererVars>>)
    \/ (\E g \in GeomNodes : GeomStep(g) /\ UNCHANGED <<demoVars, rendererVars>>)
    \/ (GeomsDone /\ UNCHANGED <<demoVars, rendererVars>>)

Spec == Init /\ [][Next]_vars

InitDemo == ParserOff /\ DemoInit /\ RendererOff

NextDemo ==
    \/ (WhileEnter /\ UNCHANGED <<parserVars, rendererVars>>)
    \/ (ActStep /\ UNCHANGED <<parserVars, rendererVars>>)
    \/ (ActDone /\ UNCHANGED <<parserVars, rendererVars>>)
    \/ (RestStep /\ UNCHANGED <<parserVars, rendererVars>>)
    \/ (RestDone /\ UNCHANGED <<parserVars, rendererVars>>)
    \/ (WhileExit /\ UNCHANGED <<parserVars, rendererVars>>)

SpecDemo == InitDemo /\ [][NextDemo]_vars

InitRenderer == ParserOff /\ DemoOff /\ RendererInit

NextRenderer ==
    \/ (\E fault \in {"none", "create", "camera"} :
            Reset(fault) /\ UNCHANGED <<parserVars, demoVars>>)
    \/ (Close /\ UNCHANGED <<parserVars, demoVars>>)
    \/ (\E id \in {0, 1} : SetCamera(id) /\ UNCHANGED <<parserVars, demoVars>>)
    \/ (Render /\ UNCHANGED <<parserVars, demoVars>>)

SpecRenderer == InitRenderer /\ [][NextRenderer]_vars

(***************************************************************************)
(* Properties                                                              *)
(***************************************************************************)

\* The geom nodes whose loop iteration ran to its end (the last one did not
\* when the pass failed).
Completed == IF pc = "failed" THEN Len(doc) - 1 ELSE Len(doc)

\* The geom nodes load_object was called for.
LoadedGeoms == {loaded[k].geom : k \in 1..Len(loaded)}

Eligible(j) == ~Excluded(resolved[j], doc[j])

\* The exclusion rule in the words of the filter claim.
ClaimExcluded(j) ==
    LET nm == resolved[j]
        g == doc[j]
    IN \/ Contains(nm, "floor") \/ Contains(nm, "wall")
       \/ nm \in {"VisualBread_g0", "VisualCan_g0", "VisualCereal_g0", "VisualMilk_g0"}
       \/ Contains(nm, "collision")
       \/ (g.group # "1" /\ g.type # "plane")

\* C1: when two eligible geom nodes carry the same explicit name, the pass
\* fails with DuplicateComponentName; it never goes on, or ends, with the
\* later geom's record in place of the earlier one.
C1_DuplicateExplicitNameFails ==
    \A a, b \in 1..Len(doc) :
        (/\ a < b
         /\ doc[a].name # None
         /\ doc[a].name = doc[b].name
         /\ Eligible(a) /\ Eligible(b))
        => (pc = "failed" /\ err = "DuplicateComponentName")

\* C2: in a document where no two geom nodes carry the same explicit name,
\* the resolved names are pairwise distinct, and a finished pass leaves
\* exactly one record per eligible geom node.
C2_ResolvedNamesDistinct ==
    (\A a, b \in 1..Len(doc) :
        (a # b /\ doc[a].name # None) => doc[a].name # doc[b].name)
    => /\ \A a, b \in 1..Len(doc) : a # b => resolved[a] # resolved[b]
       /\ pc = "done" =>
            Cardinality(DOMAIN parser.components)
                = Cardinality({j \in 1..Len(doc) : Eligible(j)})

\* C3 as stated: the unnamed geoms of one parent body element get
\* <parent name>0, <parent name>1, ... in document order, the index counting
\* the unnamed geoms of that same body element before it.
C3_CounterPerParentBody ==
    \A j \in 1..Len(doc) :
        doc[j].name = None =>
            resolved[j] = ParentBodyName(doc[j]) \o
                str(Cardinality({a \in 1..(j - 1) :
                        doc[a].name = None /\ doc[a].body = doc[j].body}))

\* C3 amended: the counter is kept per resolved parent NAME. The unnamed geoms
\* whose parents resolve to the same name (every unnamed parent resolves to
\* "worldbody") get <parent name>0, <parent name>1, ... in document order,
\* the index growing by one per such geom, excluded or not; their names are
\* pairwise distinct.
C3_CounterPerParentName ==
    /\ \A j \in 1..Len(doc) :
        doc[j].name = None =>
            resolved[j] = ParentBodyName(doc[j]) \o
                str(Cardinality({a \in 1..(j - 1) :
                        /\ doc[a].name = None
                        /\ ParentBodyName(doc[a]) = ParentBodyName(doc[j])}))
    /\ \A a, b \in 1..Len(doc) :
        (/\ a < b
         /\ doc[a].name = None /\ doc[b].name = None
         /\ ParentBodyName(doc[a]) = ParentBodyName(doc[b]))
        => resolved[a] # resolved[b]

\* Three unnamed geoms of body X (one of them filtered out by its group), and
\* two unnamed geoms of two different unnamed bodies sharing one counter.
C3_Witness ==
    \/ /\ Len(doc) = 3
       /\ \A j \in 1..3 : doc[j].name = None /\ doc[j].body = "bX"
       /\ doc[2].group = "0"
       /\ resolved = <<"X0", "X1", "X2">>
    \/ /\ Len(doc) = 2
       /\ doc[1].body = "u1" /\ doc[2].body = "u2"
       /\ resolved = <<"worldbody0", "worldbody1">>

\* C4: no record is made from a geom node the filter excludes (floor, wall,
\* deny list, collision, or outside group '1' and not a plane); every other
\* geom node whose iteration completed had its object loaded and its record
\* stored under its resolved name (a plane outside group '1' included).
C4_ExclusionFilter ==
    /\ \A j \in 1..Completed : ClaimExcluded(j) <=> j \notin LoadedGeoms
    /\ \A nm \in DOMAIN parser.components :
            ~ClaimExcluded(parser.components[nm].obj.geom)
    /\ \A j \in 1..Completed :
            ~ClaimExcluded(j) => resolved[j] \in DOMAIN parser.components

C4_Witness ==
    /\ pc = "done"
    /\ \E a, b, c \in 1..Len(doc) :
        /\ Contains(resolved[a], "floor") /\ a \notin LoadedGeoms
        /\ doc[b].group = "0" /\ doc[b].type = "plane" /\ b \in LoadedGeoms
        /\ doc[c].group = "0" /\ doc[c].type = "box" /\ c \notin LoadedGeoms

\* C5: with the material and texture tables built, an eligible geom whose
\* material is absent from the material table (or whose material's texture is
\* absent from the texture tables) does not abort the pass: its object is
\* loaded, without a texture file.
C5_UnresolvedReferenceContinues ==
    \A j \in 1..Len(doc) :
        (/\ Eligible(j)
         /\ doc[j].material # None
         /\ HasAttr(parser, "material_texture_mapping")
         /\ HasAttr(parser, "texture_attributes")
         /\ \/ doc[j].material \notin DOMAIN parser.material_texture_mapping
            \/ parser.material_texture_mapping[doc[j].material]
                 \notin DOMAIN parser.texture_attributes)
        => /\ j \in LoadedGeoms
           /\ \A k \in 1..Len(loaded) :
                loaded[k].geom = j => loaded[k].geom_tex_file = None

\* C6: a pass is all-or-nothing: after a failed pass the component table
\* holds no record; after a finished one it holds the record of every
\* eligible geom node.
C6_AllOrNothing ==
    /\ pc = "failed" => DOMAIN parser.components = {}
    /\ pc = "done" =>
        \A j \in 1..Len(doc) :
            Eligible(j) =>
                \E nm \in DOMAIN parser.components :
                    parser.components[nm].obj.geom = j

C8_DynamicIffNoBin ==
    \A nm \in DOMAIN parser.components :
        /\ nm = resolved[parser.components[nm].obj.geom]
        /\ parser.components[nm].dynamic = ~Contains(nm, "bin")

\* A synthesized and an explicit name containing 'bin', and a geom of the
\* body named bin whose own name does not contain it.
C8_Witness ==
    /\ pc = "done"
    /\ {"bin0", "cabinet", "foo"} \subseteq DOMAIN parser.components
    /\ ~parser.components["bin0"].dynamic
    /\ ~parser.components["cabinet"].dynamic
    /\ parser.components["foo"].parent_body_name = "bin"
    /\ parser.components["foo"].dynamic

\* The slots phase ph perturbs (1-based).
PerturbedSlots(ctrl, ph) == IF ctrl = "EE_IK" /\ ph > 2 THEN 4..7 ELSE {ph + 1}

\* C9: the env.step calls come in num_test_steps phases count = 0, 1, ...:
\* call number s (from 1) belongs to phase (s-1) \div 300, and sends, for each
\* arm, the neutral action with only phase's slot set to test_value (for EE_IK
\* from phase 3 on, only slots 3..6 set to the quaternion) when it is among
\* the phase's first 50 calls, and exactly the neutral action otherwise; the
\* loop ends after horizon = 300 * num_test_steps calls.
C9_PhasedPerturbation ==
    dpc # "off" =>
        LET per == steps_per_action + steps_per_rest
            ph == (steps - 1) \div per
            off == (steps - 1) % per
        IN /\ steps <= horizon
           /\ count <= num_test_steps
           /\ dpc = "while" => steps = per * count
           /\ dpc = "act" => (i <= steps_per_action /\ steps = per * count + i)
           /\ dpc = "rest" =>
                (i <= steps_per_rest /\ steps = per * count + steps_per_action + i)
           /\ dpc = "closed" => (closed /\ count = num_test_steps /\ steps = horizon)
           /\ steps >= 1 =>
                /\ Len(total_action) = n * action_dim
                /\ \A arm \in 0..(n - 1) : \A k \in 1..action_dim :
                    LET v == total_action[arm * action_dim + k]
                    IN IF off < steps_per_action /\ k \in PerturbedSlots(controller_name, ph)
                       THEN IF controller_name = "EE_IK" /\ ph > 2
                            THEN v = EulerQuat(ph - 3, test_value)[k - 3]
                            ELSE v = test_value
                       ELSE v = neutral[k]

\* The EE_IK demo of a two-arm setting has run to its end.
C9_Witness ==
    /\ dpc = "closed"
    /\ controller_name = "EE_IK"
    /\ n = 2
    /\ steps = 1800

\* C10: at most one viewer is open; every viewer but the latest one is
\* closed (so each was closed before the next was created); no viewer had
\* close() called twice; self.viewer, when set, is the latest viewer, open.
C10_OneViewerOpen ==
    rpc = "live" =>
        /\ Cardinality({v \in 1..Len(viewers) : viewers[v].open}) <= 1
        /\ \A v \in 1..(Len(viewers) - 1) : ~viewers[v].open
        /\ \A v \in 1..Len(viewers) :
            /\ viewers[v].closes <= 1
            /\ viewers[v].open <=> viewers[v].closes = 0
        /\ viewer # 0 => (viewer = Len(viewers) /\ viewers[viewer].open)

\* Three viewers were created and closed in turn, and a further close() on
\* the closed renderer raised.
C10_Witness ==
    /\ Len(viewers) = 3
    /\ viewer = 0
    /\ rerr = "AttributeError"
    /\ \A v \in 1..3 : viewers[v].closes = 1

====
